---- MODULE Spec2Model ----
(***************************************************************************)
(* Model of the OAS router middleware (src/src/middleware/oas-router.js):  *)
(* operation resolution, dynamic dispatch by operationId and the response  *)
(* interceptor that validates outgoing payloads against the specification. *)
(*                                                                         *)
(* JavaScript values are tagged records; objects keep their properties as  *)
(* an ordered sequence of <<key, value>> pairs (insertion order).  Strings *)
(* are TLA+ strings.  An operation that can throw returns a record whose   *)
(* field `threw` tells whether it did and whose field `err` names the      *)
(* exception.                                                              *)
(***************************************************************************)
EXTENDS Integers, Sequences, FiniteSets, TLC

VARIABLES
  modules,    \* the deployment: what require() finds under each path
  rq,         \* per request: closure variables, response object, observations
  log,        \* entries written through the logger, in order
  ticks,      \* callbacks queued with process.nextTick by the validator
  lastReport, \* the module-level validator's last report (shared by requests)
  sends,      \* number of res.send calls handlers have made so far
  cache       \* require.cache: the exports of the modules loaded so far

vars == <<modules, rq, log, ticks, lastReport, sends, cache>>

(***************************************************************************)
(* Bounds of the model.                                                    *)
(***************************************************************************)
\* the calls of res.send that handlers make, over all requests
MaxSends == 2

\* the same, where three requests are in flight
FewSends == 1

\* two requests in flight: the least number that lets one request run
\* between the steps of another
Requests == {1, 2}

(***************************************************************************)
(* JavaScript values.                                                      *)
(***************************************************************************)
Undefined == [k |-> "undefined"]
JNull == [k |-> "null"]
JStr(s) == [k |-> "string", s |-> s]
JNum(n) == [k |-> "number", n |-> n]
JBool(b) == [k |-> "boolean", b |-> b]
JArr(a) == [k |-> "array", a |-> a]
JObj(p) == [k |-> "object", p |-> p]
JFn(f) == [k |-> "function", f |-> f]

\* obj.hasOwnProperty(key) for an object value
HasOwn(v, key) == v.k = "object" /\ \E i \in 1..Len(v.p) : v.p[i][1] = key

\* the own property `key` of an object value
OwnProp(v, key) ==
  LET i == CHOOSE j \in 1..Len(v.p) : v.p[j][1] = key
  IN v.p[i][2]

\* the function-valued names every object inherits from Object.prototype
ObjectPrototype ==
  {"constructor", "__defineGetter__", "__defineSetter__", "hasOwnProperty",
   "__lookupGetter__", "__lookupSetter__", "isPrototypeOf",
   "propertyIsEnumerable", "toString", "valueOf", "toLocaleString"}

\* the function-valued names a function inherits from Function.prototype
FunctionPrototype == {"apply", "bind", "call", "toString", "constructor"}

\* the function-valued names a string inherits from String.prototype
StringPrototype ==
  {"constructor", "toString", "valueOf", "anchor", "at", "big", "blink", "bold",
   "charAt", "charCodeAt", "codePointAt", "concat", "endsWith", "fixed",
   "fontcolor", "fontsize", "includes", "indexOf", "isWellFormed", "italics",
   "lastIndexOf", "link", "localeCompare", "match", "matchAll", "normalize",
   "padEnd", "padStart", "repeat", "replace", "replaceAll", "search", "slice",
   "small", "split", "strike", "sub", "substr", "substring", "sup",
   "startsWith", "toLocaleLowerCase", "toLocaleUpperCase", "toLowerCase",
   "toUpperCase", "toWellFormed", "trim", "trimEnd", "trimLeft", "trimRight",
   "trimStart"}

\* the function-valued names a number inherits from Number.prototype
NumberPrototype ==
  {"constructor", "toExponential", "toFixed", "toLocaleString", "toPrecision",
   "toString", "valueOf"}

\* the functions the constructors Object, String and Number hold themselves
ObjectStatics ==
  {"assign", "create", "defineProperties", "defineProperty", "entries",
   "freeze", "fromEntries", "getOwnPropertyDescriptor",
   "getOwnPropertyDescriptors", "getOwnPropertyNames",
   "getOwnPropertySymbols", "getPrototypeOf", "hasOwn", "is", "isExtensible",
   "isFrozen", "isSealed", "keys", "preventExtensions", "seal",
   "setPrototypeOf", "values"}

StringStatics == {"fromCharCode", "fromCodePoint", "raw"}

NumberStatics ==
  {"isFinite", "isInteger", "isNaN", "isSafeInteger", "parseFloat", "parseInt"}

\* the numbers the constructor Number holds, kept by name
NumberConstants ==
  {"EPSILON", "MAX_SAFE_INTEGER", "MAX_VALUE", "MIN_SAFE_INTEGER", "MIN_VALUE",
   "NaN", "NEGATIVE_INFINITY", "POSITIVE_INFINITY"}

JConst(c) == [k |-> "number", c |-> c]

\* Object.prototype, String.prototype, Number.prototype as values
ProtoObj(of) == [k |-> "prototype", of |-> of]

\* the prototype property of the function f of a module: an object whose
\* constructor is f
FnProto(f) == [k |-> "fnprototype", f |-> f]

\* value.toString() / String(value)
ToStr(v) ==
  CASE v.k = "string" -> v.s
    [] v.k = "number" -> ToString(v.n)
    [] v.k = "boolean" -> IF v.b THEN "true" ELSE "false"
    [] v.k = "undefined" -> "undefined"
    [] v.k = "null" -> "null"
    [] v.k = "object" -> "[object Object]"
    [] OTHER -> "function"

Min(a, b) == IF a < b THEN a ELSE b
Max(a, b) == IF a < b THEN b ELSE a

\* String.prototype.substring(start, end); end = -1 stands for undefined
substring(s, start, end) ==
  LET n == Len(s)
      a == Min(Max(start, 0), n)
      b == IF end = -1 THEN n ELSE Min(Max(end, 0), n)
  IN SubSeq(s, Min(a, b) + 1, Max(a, b))

\* the .length of a value: defined for strings, undefined (-1) for plain objects
LengthOf(v) == IF v.k = "string" THEN Len(v.s) ELSE -1

\* the i-th character of s (1-based), "" outside the string
CharAt(s, i) == IF i >= 1 /\ i <= Len(s) THEN SubSeq(s, i, i) ELSE ""

RECURSIVE SplitFrom(_, _, _, _)
SplitFrom(s, sep, i, cur) ==
  IF i > Len(s) THEN <<cur>>
  ELSE IF CharAt(s, i) = sep THEN <<cur>> \o SplitFrom(s, sep, i + 1, "")
  ELSE SplitFrom(s, sep, i + 1, cur \o CharAt(s, i))

\* String.prototype.split(sep) for a one-character separator
split(s, sep) == SplitFrom(s, sep, 1, "")

(***************************************************************************)
(* JSON.stringify.                                                         *)
(***************************************************************************)
RECURSIVE EscapeFrom(_, _)
EscapeFrom(s, i) ==
  IF i > Len(s) THEN ""
  ELSE LET c == CharAt(s, i)
       IN (IF c = "\"" \/ c = "\\" THEN "\\" \o c ELSE c) \o EscapeFrom(s, i + 1)

Quote(s) == "\"" \o EscapeFrom(s, 1) \o "\""

RECURSIVE Serialize(_)
RECURSIVE SerializeItems(_, _)
RECURSIVE SerializeProps(_, _, _)

\* the JSON text of a value that has one ("" when it has none)
Serialize(v) ==
  CASE v.k = "string" -> Quote(v.s)
    [] v.k = "number" -> ToString(v.n)
    [] v.k = "boolean" -> IF v.b THEN "true" ELSE "false"
    [] v.k = "null" -> "null"
    [] v.k = "array" -> "[" \o SerializeItems(v.a, 1) \o "]"
    [] v.k = "object" -> "{" \o SerializeProps(v.p, 1, TRUE) \o "}"
    [] OTHER -> ""

HasJson(v) == v.k \notin {"undefined", "function"}

SerializeItems(a, i) ==
  IF i > Len(a) THEN ""
  ELSE (IF i > 1 THEN "," ELSE "")
       \o (IF HasJson(a[i]) THEN Serialize(a[i]) ELSE "null")
       \o SerializeItems(a, i + 1)

SerializeProps(p, i, first) ==
  IF i > Len(p) THEN ""
  ELSE IF ~HasJson(p[i][2]) THEN SerializeProps(p, i + 1, first)
  ELSE (IF first THEN "" ELSE ",")
       \o Quote(p[i][1]) \o ":" \o Serialize(p[i][2])
       \o SerializeProps(p, i + 1, FALSE)

\* JSON.stringify(value): a string, or undefined for undefined and functions
JSONstringify(v) == IF HasJson(v) THEN JStr(Serialize(v)) ELSE Undefined

(***************************************************************************)
(* JSON.parse: a recursive-descent parser for the JSON texts that          *)
(* JSON.stringify produces (no white space; the escapes \" and \\).  Each  *)
(* parser returns [ok, v, i]: success, the value, and the next position.   *)
(***************************************************************************)
ParseFail == [ok |-> FALSE, v |-> Undefined, i |-> 0]
ParseOk(v, i) == [ok |-> TRUE, v |-> v, i |-> i]

Digits == {"0", "1", "2", "3", "4", "5", "6", "7", "8", "9"}

DigitVal(c) ==
  CASE c = "0" -> 0 [] c = "1" -> 1 [] c = "2" -> 2 [] c = "3" -> 3
    [] c = "4" -> 4 [] c = "5" -> 5 [] c = "6" -> 6 [] c = "7" -> 7
    [] c = "8" -> 8 [] OTHER -> 9

RECURSIVE ParseDigits(_, _, _)
ParseDigits(s, i, acc) ==
  IF CharAt(s, i) \in Digits
  THEN ParseDigits(s, i + 1, 10 * acc + DigitVal(CharAt(s, i)))
  ELSE ParseOk(acc, i)

ParseNumber(s, i) ==
  LET neg == CharAt(s, i) = "-"
      j == IF neg THEN i + 1 ELSE i
      d == ParseDigits(s, j, 0)
  IN IF CharAt(s, j) \notin Digits THEN ParseFail
     ELSE ParseOk(JNum(IF neg THEN 0 - d.v ELSE d.v), d.i)

RECURSIVE ParseString(_, _, _)
ParseString(s, i, acc) ==
  LET c == CharAt(s, i)
  IN CASE c = "" -> ParseFail
       [] c = "\"" -> ParseOk(JStr(acc), i + 1)
       [] c = "\\" -> IF CharAt(s, i + 1) \in {"\"", "\\"}
                      THEN ParseString(s, i + 2, acc \o CharAt(s, i + 1))
                      ELSE ParseFail
       [] OTHER -> ParseString(s, i + 1, acc \o c)

RECURSIVE ParseValue(_, _)
RECURSIVE ParseItems(_, _, _)
RECURSIVE ParseMembers(_, _, _)

ParseValue(s, i) ==
  LET c == CharAt(s, i)
  IN CASE c = "\"" -> ParseString(s, i + 1, "")
       [] c = "[" -> IF CharAt(s, i + 1) = "]" THEN ParseOk(JArr(<<>>), i + 2)
                     ELSE ParseItems(s, i + 1, <<>>)
       [] c = "{" -> IF CharAt(s, i + 1) = "}" THEN ParseOk(JObj(<<>>), i + 2)
                     ELSE ParseMembers(s, i + 1, <<>>)
       [] c = "t" -> IF substring(s, i - 1, i + 3) = "true"
                     THEN ParseOk(JBool(TRUE), i + 4) ELSE ParseFail
       [] c = "f" -> IF substring(s, i - 1, i + 4) = "false"
                     THEN ParseOk(JBool(FALSE), i + 5) ELSE ParseFail
       [] c = "n" -> IF substring(s, i - 1, i + 3) = "null"
                     THEN ParseOk(JNull, i + 4) ELSE ParseFail
       [] c = "-" \/ c \in Digits -> ParseNumber(s, i)
       [] OTHER -> ParseFail

ParseItems(s, i, acc) ==
  LET r == ParseValue(s, i)
  IN IF ~r.ok THEN ParseFail
     ELSE CASE CharAt(s, r.i) = "," -> ParseItems(s, r.i + 1, Append(acc, r.v))
            [] CharAt(s, r.i) = "]" -> ParseOk(JArr(Append(acc, r.v)), r.i + 1)
            [] OTHER -> ParseFail

ParseMembers(s, i, acc) ==
  IF CharAt(s, i) # "\"" THEN ParseFail
  ELSE LET key == ParseString(s, i + 1, "")
       IN IF ~key.ok \/ CharAt(s, key.i) # ":" THEN ParseFail
          ELSE LET r == ParseValue(s, key.i + 1)
                   m == Append(acc, <<key.v.s, r.v>>)
               IN IF ~r.ok THEN ParseFail
                  ELSE CASE CharAt(s, r.i) = "," -> ParseMembers(s, r.i + 1, m)
                         [] CharAt(s, r.i) = "}" -> ParseOk(JObj(m), r.i + 1)
                         [] OTHER -> ParseFail

\* JSON.parse(value): the argument is first converted to a string; a text that
\* is not JSON throws SyntaxError
\* (ParseResult: the whole text must have been read)
ParseResult(text, r) ==
  IF r.ok /\ r.i = Len(text) + 1
  THEN [threw |-> FALSE, err |-> "", v |-> r.v]
  ELSE [threw |-> TRUE, err |-> "SyntaxError", v |-> Undefined]

JSONparse(v) == ParseResult(ToStr(v), ParseValue(ToStr(v), 1))

(***************************************************************************)
(* The schema validator (z-schema, created at module level with            *)
(* breakOnFirstError left at its default).  A schema is a function from    *)
(* keyword to value; the keywords modelled are type, required, properties  *)
(* and items.  The report is threaded through the traversal.               *)
(***************************************************************************)
\* Utils.whatIs
whatIs(json) == IF json.k = "number" THEN "integer" ELSE json.k

TypeError(schema, json) ==
  IF "type" \in DOMAIN schema
     /\ whatIs(json) # schema.type
     /\ ~(whatIs(json) = "integer" /\ schema.type = "number")
  THEN << [code |-> "INVALID_TYPE",
           message |-> "Expected type " \o schema.type
                       \o " but found type " \o whatIs(json)] >>
  ELSE <<>>

\* the `required` keyword, iterated from the last name to the first
RECURSIVE RequiredErrors(_, _, _)
RequiredErrors(required, json, idx) ==
  IF idx = 0 THEN <<>>
  ELSE (IF json.k = "object" /\ ~HasOwn(json, required[idx])
        THEN << [code |-> "OBJECT_MISSING_REQUIRED_PROPERTY",
                 message |-> "Missing required property: " \o required[idx]] >>
        ELSE <<>>)
       \o RequiredErrors(required, json, idx - 1)

RECURSIVE ValidateNode(_, _, _)
RECURSIVE RecurseArray(_, _, _, _)
RECURSIVE RecurseObject(_, _, _, _)

\* JsonValidation.validate: the type first, then the other keywords, then the
\* children while the report is still empty
ValidateNode(report, schema, json) ==
  LET r1 == report \o TypeError(schema, json)
      r2 == IF "required" \in DOMAIN schema
            THEN r1 \o RequiredErrors(schema.required, json, Len(schema.required))
            ELSE r1
  IN IF r1 # <<>> THEN r1
     ELSE IF r2 # <<>> THEN r2
     ELSE IF json.k = "array" /\ "items" \in DOMAIN schema
          THEN RecurseArray(r2, schema.items, json.a, Len(json.a))
     ELSE IF json.k = "object" /\ "properties" \in DOMAIN schema
          THEN RecurseObject(r2, schema.properties, json.p, Len(json.p))
     ELSE r2

RecurseArray(report, items, a, idx) ==
  IF idx = 0 THEN report
  ELSE RecurseArray(ValidateNode(report, items, a[idx]), items, a, idx - 1)

RecurseObject(report, properties, p, idx) ==
  IF idx = 0 THEN report
  ELSE RecurseObject(
         IF p[idx][1] \in DOMAIN properties
         THEN ValidateNode(report, properties[p[idx][1]], p[idx][2])
         ELSE report,
         properties, p, idx - 1)

\* the errors validator.validate(data, schema, callback) hands its callback
Validate(data, schema) == ValidateNode(<<>>, schema, data)

\* processErr(err)
RECURSIVE JoinErrors(_, _)
JoinErrors(err, i) ==
  IF i > Len(err) THEN ""
  ELSE ". " \o err[i].message \o JoinErrors(err, i + 1)

\* processErr returning the concatenation as it is
processErr_LeadingSeparator(err) == JoinErrors(err, 1)

processErr(err) ==
  LET errors == JoinErrors(err, 1)
  IN substring(errors, 2, Len(errors))

(***************************************************************************)
(* The specification document (res.locals.spec): paths, then lower-case    *)
(* methods, then the Operation Descriptor.  A descriptor is a function     *)
(* from property name to value, so hasOwnProperty is membership in DOMAIN. *)
(***************************************************************************)
PetSchema ==
  [type |-> "object",
   required |-> <<"id", "name">>,
   properties |-> [id |-> [type |-> "integer"],
                   name |-> [type |-> "string"],
                   tag |-> [type |-> "string"]]]

PetsSchema == [type |-> "array", items |-> PetSchema]

JsonContent(schema) ==
  [description |-> "json",
   content |-> ("application/json" :> [schema |-> schema])]

TextContent ==
  [description |-> "text",
   content |-> ("text/plain" :> [schema |-> [type |-> "string"]])]

NoContent == [description |-> "Null response"]

PetResponses ==
  ("200" :> JsonContent(PetsSchema)) @@ ("201" :> NoContent)
  @@ ("default" :> JsonContent([type |-> "object"]))

Petstore ==
  [paths |->
    ("/pets" :>
       [get |-> [responses |-> PetResponses],
        post |-> ("x-router-controller" :> "petsController")
                 @@ [operationId |-> "createPets", responses |-> PetResponses],
        put |-> ("x-router-controller" :> "petsController")
                @@ [operationId |-> "createPets.call",
                    responses |-> PetResponses]])
    @@ ("/owners" :>
       [get |-> ("x-router-controller" :> "ownersCtl")
                @@ [operationId |-> "owners.list",
                    responses |-> ("200" :> TextContent)],
        post |-> ("x-router-controller" :> "ownersControllers")
                 @@ [operationId |-> "updateOwner", responses |-> PetResponses],
        put |-> [operationId |-> "updateOwner", responses |-> PetResponses]])
    @@ ("/tags" :>
       [get |-> ("x-router-controller" :> "missingCtl")
                @@ [operationId |-> "listTags", responses |-> PetResponses],
        post |-> ("x-router-controller" :> "tagsCtl")
                 @@ [operationId |-> "removeTag", responses |-> PetResponses],
        put |-> ("x-router-controller" :> "tagsCtl")
                @@ [operationId |-> "toString", responses |-> PetResponses],
        delete |-> ("x-router-controller" :> "tagsCtl")
                   @@ [operationId |-> "admin.purge", responses |-> PetResponses]])]

Specs == [petstore |-> Petstore]

HttpMethods == {"GET", "POST", "PUT", "DELETE"}

UpperCase == "ABCDEFGHIJKLMNOPQRSTUVWXYZ"
LowerCase == "abcdefghijklmnopqrstuvwxyz"

LowerChar(c) ==
  IF \E i \in 1..Len(UpperCase) : CharAt(UpperCase, i) = c
  THEN CharAt(LowerCase, CHOOSE i \in 1..Len(UpperCase) : CharAt(UpperCase, i) = c)
  ELSE c

RECURSIVE LowerFrom(_, _)
LowerFrom(s, i) ==
  IF i > Len(s) THEN "" ELSE LowerChar(CharAt(s, i)) \o LowerFrom(s, i + 1)

\* String.prototype.toLowerCase
toLowerCase(s) == LowerFrom(s, 1)

\* the requests the upstream matcher lets through: path+method pairs of the
\* specification
Operations ==
  { o \in [spec : DOMAIN Specs, url : {"/pets", "/owners", "/tags"},
           method : HttpMethods] :
      /\ o.url \in DOMAIN Specs[o.spec].paths
      /\ toLowerCase(o.method) \in DOMAIN Specs[o.spec].paths[o.url] }

\* a document node (the specification, an Operation Descriptor) seen as a
\* JavaScript value: a plain object without a length property
AsObject(node) == JObj(<<>>)

(***************************************************************************)
(* Handler modules and require().                                          *)
(***************************************************************************)
\* options.controllers
ControllersDir == "/app/controllers"

\* path.join(dir, name) for a name without "." or ".." segments
pathJoin(dir, name) == dir \o "/" \o name

Handler(id) == JFn(id)

PetsControllers ==
  JObj(<< <<"listpets", Handler("petsControllers.listpets")>>,
          <<"createpets", Handler("petsControllers.createpets")>> >>)

PetsController ==
  JObj(<< <<"createPets", Handler("petsController.createPets")>> >>)

OwnersCtl ==
  JObj(<< <<"owners", JObj(<< <<"list", Handler("ownersCtl.owners.list")>> >>)>>,
          <<"version", JStr("1.0")>> >>)

OwnersControllers ==
  JObj(<< <<"updateOwner", Handler("ownersControllers.updateOwner")>> >>)

TagsCtl == JObj(<< <<"listTags", Handler("tagsCtl.listTags")>> >>)

DefaultController ==
  JObj(<< <<"updateOwner", Handler("Defualt.updateOwner")>> >>)

OverrideModules ==
  (pathJoin(ControllersDir, "petsController") :> PetsController)
  @@ (pathJoin(ControllersDir, "ownersCtl") :> OwnersCtl)
  @@ (pathJoin(ControllersDir, "tagsCtl") :> TagsCtl)

DefaultModule == pathJoin(ControllersDir, "Defualt") :> DefaultController

\* conventional modules that are empty files: require gives the object
\* module.exports starts as
EmptyConventionalModules ==
  (pathJoin(ControllersDir, "petsControllers") :> JObj(<<>>))
  @@ (pathJoin(ControllersDir, "ownersControllers") :> JObj(<<>>))

\* conventional modules that assign undefined to module.exports
UndefinedConventionalModules ==
  (pathJoin(ControllersDir, "petsControllers") :> Undefined)
  @@ (pathJoin(ControllersDir, "ownersControllers") :> Undefined)

\* the deployments: every conventional module present; none present; the
\* conventional modules empty; the conventional modules exporting
\* undefined, with and without a default module
Deployments ==
  { OverrideModules @@ DefaultModule
      @@ (pathJoin(ControllersDir, "petsControllers") :> PetsControllers)
      @@ (pathJoin(ControllersDir, "ownersControllers") :> OwnersControllers),
    OverrideModules @@ DefaultModule,
    OverrideModules @@ DefaultModule @@ EmptyConventionalModules,
    OverrideModules @@ DefaultModule @@ UndefinedConventionalModules,
    OverrideModules @@ UndefinedConventionalModules }

Returned(v) == [threw |-> FALSE, err |-> "", v |-> v]
Thrown(e) == [threw |-> TRUE, err |-> e, v |-> Undefined]

\* the module system a request finds: the files under options.controllers
\* and require.cache as the requests before it left it
ModuleSystem(files, cached) == [files |-> files, cache |-> cached]

\* an outcome together with require.cache as the code left it
Caching(res, cached) ==
  [threw |-> res.threw, err |-> res.err, v |-> res.v, cache |-> cached]

\* require(id): the exports kept in require.cache when the module was loaded
\* before; else the module is loaded and kept; an exception, and nothing
\* kept, when nothing loads
require(mods, id) ==
  IF id \in DOMAIN mods.cache THEN Caching(Returned(mods.cache[id]), mods.cache)
  ELSE IF id \in DOMAIN mods.files
  THEN Caching(Returned(mods.files[id]), (id :> mods.files[id]) @@ mods.cache)
  ELSE Caching(Thrown("MODULE_NOT_FOUND"), mods.cache)

(***************************************************************************)
(* Operation resolution.                                                   *)
(***************************************************************************)
\* existsController that looks the module up in require.cache instead of
\* loading it
existsController_FromCache(mods, locationOfControllers, controllerName) ==
  Caching(Returned(pathJoin(locationOfControllers, controllerName)
                     \in DOMAIN mods.cache),
          mods.cache)

\* existsController(locationOfControllers, controllerName)
existsController(mods, locationOfControllers, controllerName) ==
  LET load == require(mods, pathJoin(locationOfControllers, controllerName))
  IN IF load.threw THEN load
     ELSE Caching(Returned(load.v.k \notin {"undefined", "null"}), load.cache)

\* nameOfPath(reqPath): reqPath.toString().substring(1, reqPath.length)
nameOfPath(reqPath) == substring(ToStr(reqPath), 1, LengthOf(reqPath))

\* generateName(url)
generateName(url) == nameOfPath(JStr(url)) \o "Controllers"

\* nameMethod(method)
nameMethod(method) ==
  LET m == ToStr(method)
  IN IF m = "GET" THEN "list"
     ELSE IF m = "POST" THEN "create"
     ELSE IF m = "PUT" THEN "update"
     ELSE "delete"

\* generateOpId(spec, url, method)
generateOpId(spec, url, method) ==
  LET desc == spec.paths[url][method]
  IN IF "operationId" \in DOMAIN desc
     THEN ToStr(JStr(desc.operationId))
     ELSE nameMethod(AsObject(desc)) \o nameOfPath(AsObject(desc))

\* controllerNameFor with the conventional module tried before the override
controllerNameFor_ConventionFirst(mods, spec, url, method) ==
  IF pathJoin(ControllersDir, generateName(url)) \in DOMAIN mods.files
  THEN Caching(Returned(generateName(url)), mods.cache)
  ELSE IF "x-router-controller" \in DOMAIN spec.paths[url][method]
  THEN Caching(Returned(spec.paths[url][method]["x-router-controller"]), mods.cache)
  ELSE Caching(Returned("Defualt"), mods.cache)

\* OASRouter, the choice of controllerName: the override, else the
\* conventional name when it loads to something, else the default
controllerNameFor(mods, spec, url, method) ==
  LET desc == spec.paths[url][method]
  IN IF "x-router-controller" \in DOMAIN desc
     THEN Caching(Returned(desc["x-router-controller"]), mods.cache)
     ELSE LET exists == existsController(mods, ControllersDir, generateName(url))
          IN IF exists.threw THEN exists
             ELSE IF exists.v
             THEN Caching(Returned(generateName(url)), exists.cache)
             ELSE Caching(Returned("Defualt"), exists.cache)

(***************************************************************************)
(* Dispatch.                                                               *)
(***************************************************************************)
\* a function found on a prototype, named after the prototype that holds it
Builtin(proto, key) == JFn(proto \o ".prototype." \o key)

HasPrefix(text, prefix) == substring(text, 0, Len(prefix)) = prefix

\* the prototype that holds a function, "" for any other function
ProtoOf(fn) ==
  IF HasPrefix(fn, "Object.prototype.") THEN "Object"
  ELSE IF HasPrefix(fn, "Function.prototype.") THEN "Function"
  ELSE IF HasPrefix(fn, "String.prototype.") THEN "String"
  ELSE IF HasPrefix(fn, "Number.prototype.") THEN "Number"
  ELSE ""

\* the name a function has on its prototype
KeyOf(fn) == substring(fn, Len(ProtoOf(fn)) + Len(".prototype."), Len(fn))

\* the constructor that holds a function such as Object.keys, "" for any
\* other function
StaticOf(fn) ==
  IF ProtoOf(fn) # "" \/ fn = "Function.prototype" THEN ""
  ELSE IF HasPrefix(fn, "Object.") THEN "Object"
  ELSE IF HasPrefix(fn, "String.") THEN "String"
  ELSE IF HasPrefix(fn, "Number.") THEN "Number"
  ELSE ""

\* whether a function is a function of a module: not a built-in one, not
\* the continuation
IsHandler(fn) ==
  ProtoOf(fn) = "" /\ StaticOf(fn) = "" /\ fn # "Function.prototype"
  /\ fn # "next"

\* the constructor a function is, "" for any other function
ConstructorOf(fn) == IF KeyOf(fn) = "constructor" THEN ProtoOf(fn) ELSE ""

\* the length of a function: the handlers of a module are declared
\* function (req, res, next), in strict mode
Arity(fn) ==
  IF IsHandler(fn) THEN 3
  ELSE IF fn = "Object.defineProperty" THEN 3
  ELSE IF fn \in {"Object.prototype.__defineGetter__",
                  "Object.prototype.__defineSetter__",
                  "Function.prototype.apply", "String.prototype.replace",
                  "String.prototype.replaceAll", "String.prototype.slice",
                  "String.prototype.split", "String.prototype.substr",
                  "String.prototype.substring", "Object.assign",
                  "Object.create", "Object.defineProperties",
                  "Object.getOwnPropertyDescriptor", "Object.hasOwn",
                  "Object.is", "Object.setPrototypeOf", "Number.parseInt"}
  THEN 2
  ELSE IF fn = "Function.prototype"
          \/ fn \in {"Object.prototype.toString", "Object.prototype.valueOf",
                     "Object.prototype.toLocaleString",
                     "Function.prototype.toString",
                     "Number.prototype.toLocaleString",
                     "Number.prototype.valueOf"}
          \/ (ProtoOf(fn) = "String"
              /\ KeyOf(fn) \in {"big", "blink", "bold", "fixed", "isWellFormed",
                                "italics", "normalize", "small", "strike",
                                "sub", "sup", "toLocaleLowerCase",
                                "toLocaleUpperCase", "toLowerCase", "toString",
                                "toUpperCase", "toWellFormed", "trim",
                                "trimEnd", "trimStart", "valueOf"})
  THEN 0
  ELSE 1

\* the name of a function: for a function of a module the name of the
\* property that holds it
NameOf(fn) ==
  IF fn = "Function.prototype" THEN ""
  ELSE IF ConstructorOf(fn) # "" THEN ConstructorOf(fn)
  ELSE split(fn, ".")[Len(split(fn, "."))]

\* what every value finds on Object.prototype, but for __proto__
FromObject(key) ==
  IF key \in ObjectPrototype THEN Builtin("Object", key) ELSE Undefined

\* a function of String.prototype: trimLeft and trimRight are the functions
\* trimStart and trimEnd
StringFunction(key) ==
  Builtin("String", IF key = "trimLeft" THEN "trimStart"
                    ELSE IF key = "trimRight" THEN "trimEnd" ELSE key)

\* a property of a function value
FunctionProp(fn, key) ==
  IF key = "length" THEN Returned(JNum(Arity(fn)))
  ELSE IF key = "name" THEN Returned(JStr(NameOf(fn)))
  ELSE IF key \in {"arguments", "caller"} THEN Thrown("TypeError")
  ELSE IF key = "prototype" /\ IsHandler(fn) THEN Returned(FnProto(fn))
  ELSE IF key = "prototype" /\ ConstructorOf(fn) = "Function"
  THEN Returned(JFn("Function.prototype"))
  ELSE IF key = "prototype" /\ ConstructorOf(fn) # ""
  THEN Returned(ProtoObj(ConstructorOf(fn)))
  ELSE IF \/ ConstructorOf(fn) = "Object" /\ key \in ObjectStatics
          \/ ConstructorOf(fn) = "String" /\ key \in StringStatics
          \/ ConstructorOf(fn) = "Number" /\ key \in NumberStatics
  THEN Returned(JFn(ConstructorOf(fn) \o "." \o key))
  ELSE IF ConstructorOf(fn) = "Number" /\ key \in NumberConstants
  THEN Returned(JConst(key))
  ELSE IF key \in FunctionPrototype THEN Returned(Builtin("Function", key))
  ELSE IF key = "__proto__"
  THEN Returned(IF fn = "Function.prototype" THEN ProtoObj("Object")
                ELSE JFn("Function.prototype"))
  ELSE Returned(FromObject(key))

\* a property of a string: its length, its characters, String.prototype
StringProp(str, key) ==
  IF key = "length" THEN JNum(Len(str))
  ELSE IF \E n \in 0..(Len(str) - 1) : ToString(n) = key
  THEN JStr(CharAt(str, 1 + CHOOSE n \in 0..(Len(str) - 1) : ToString(n) = key))
  ELSE IF key \in StringPrototype THEN StringFunction(key)
  ELSE IF key = "__proto__" THEN ProtoObj("String")
  ELSE FromObject(key)

\* a property of a number
NumberProp(key) ==
  IF key \in NumberPrototype THEN Builtin("Number", key)
  ELSE IF key = "__proto__" THEN ProtoObj("Number")
  ELSE FromObject(key)

\* a property of Object.prototype, String.prototype or Number.prototype
PrototypeProp(of, key) ==
  IF of = "Object"
  THEN (IF key = "__proto__" THEN JNull ELSE FromObject(key))
  ELSE IF key = "__proto__" THEN ProtoObj("Object")
  ELSE IF of = "String" /\ key = "length" THEN JNum(0)
  ELSE IF of = "String" /\ key \in StringPrototype THEN StringFunction(key)
  ELSE IF of = "Number" /\ key \in NumberPrototype THEN Builtin("Number", key)
  ELSE FromObject(key)

\* context[key]: own properties, then the prototype chain; reading a
\* property of undefined or null throws, and so does reading arguments or
\* caller of a function.  The contexts are what can be reached from a module
\* of objects, functions and strings
GetProp(context, key) ==
  CASE context.k \in {"undefined", "null"} -> Thrown("TypeError")
    [] context.k = "object" ->
         IF HasOwn(context, key) THEN Returned(OwnProp(context, key))
         ELSE IF key = "__proto__" THEN Returned(ProtoObj("Object"))
         ELSE Returned(FromObject(key))
    [] context.k = "function" -> FunctionProp(context.f, key)
    [] context.k = "string" -> Returned(StringProp(context.s, key))
    [] context.k = "number" -> Returned(NumberProp(key))
    [] context.k = "prototype" -> Returned(PrototypeProp(context.of, key))
    [] context.k = "fnprototype" ->
         IF key = "constructor" THEN Returned(JFn(context.f))
         ELSE IF key = "__proto__" THEN Returned(ProtoObj("Object"))
         ELSE Returned(FromObject(key))

\* the loop of executeFunctionByName: context = context[namespaces[i]]
RECURSIVE Descend(_, _, _)
Descend(ctx, namespaces, i) ==
  IF i > Len(namespaces) \/ ctx.threw THEN ctx
  ELSE Descend(GetProp(ctx.v, namespaces[i]), namespaces, i + 1)

\* context[func] after the loop
Lookup(ctx, func) == IF ctx.threw THEN ctx ELSE GetProp(ctx.v, func)

\* whether a number value is finite
Finite(v) ==
  ~(v.k = "number" /\ "c" \in DOMAIN v
    /\ v.c \in {"NaN", "NEGATIVE_INFINITY", "POSITIVE_INFINITY"})

\* the exception of a built-in function applied to the context with
\* (req, res, next), "" when it returns: a getter or setter that is not a
\* function, a parameter list that does not parse, a normalization form, a
\* radix, a precision or a code point that is out of range, property
\* descriptors (the own properties of an Express response) that are not
\* objects, a request that is not iterable or has no raw strings
DirectError(context, fn) ==
  IF fn \in {"Object.prototype.__defineGetter__",
             "Object.prototype.__defineSetter__", "Object.create",
             "Object.defineProperties", "Object.fromEntries", "String.raw"}
  THEN "TypeError"
  ELSE IF fn = "Function.prototype.constructor" THEN "SyntaxError"
  ELSE IF fn \in {"String.prototype.normalize", "Number.prototype.toString",
                  "String.fromCodePoint"}
  THEN "RangeError"
  ELSE IF fn = "Number.prototype.toPrecision" /\ Finite(context)
  THEN "RangeError"
  ELSE ""

\* the exception of a built-in function reached through call or apply: it
\* runs with this = req, and with (res, next) or with no argument
ShiftedError(fn, viaCall) ==
  IF \/ fn \in {"Function.prototype.call", "Function.prototype.apply",
                "Function.prototype.bind", "Function.prototype.toString",
                "String.prototype.toString", "String.prototype.valueOf",
                "Object.fromEntries", "String.raw"}
     \/ (ProtoOf(fn) = "Number" /\ KeyOf(fn) # "constructor")
  THEN "TypeError"
  ELSE IF viaCall
  THEN (IF fn = "Function.prototype.constructor" THEN "SyntaxError"
        ELSE IF fn \in {"String.prototype.normalize", "String.fromCodePoint"}
        THEN "RangeError"
        ELSE IF fn = "Object.defineProperty" THEN "TypeError"
        ELSE "")
  ELSE IF fn \in {"Object.prototype.__defineGetter__",
                  "Object.prototype.__defineSetter__", "Object.assign",
                  "Object.create", "Object.defineProperties",
                  "Object.defineProperty", "Object.entries",
                  "Object.getOwnPropertyDescriptor",
                  "Object.getOwnPropertyDescriptors",
                  "Object.getOwnPropertyNames",
                  "Object.getOwnPropertySymbols", "Object.getPrototypeOf",
                  "Object.hasOwn", "Object.keys", "Object.setPrototypeOf",
                  "Object.values"}
  THEN "TypeError"
  ELSE ""

\* the outcome of applying functions: the applications made, or the exception
Ran(calls) == [threw |-> FALSE, err |-> "", calls |-> calls]
Raised(e) == [threw |-> TRUE, err |-> e, calls |-> <<>>]

\* String.prototype.replace and replaceAll called on req with (res, next):
\* the text of req holds the text of res, and next is called as the replacer
Replaced ==
  [fn |-> "next",
   args |-> <<JStr("[object Object]"), JNum(0), JStr("[object Object]")>>]

\* Function.prototype.call and Function.prototype.apply applied to the
\* function `target` with (req, res, next): target runs with this = req and
\* with the parameters `params`
shifted(first, target, params, viaCall) ==
  IF IsHandler(target)
  THEN Ran(<< first, [fn |-> target, args |-> params] >>)
  ELSE IF ShiftedError(target, viaCall) # ""
  THEN Raised(ShiftedError(target, viaCall))
  ELSE IF viaCall /\ target \in {"String.prototype.replace",
                                 "String.prototype.replaceAll"}
  THEN Ran(<< first, [fn |-> target, args |-> params], Replaced >>)
  ELSE Ran(<< first, [fn |-> target, args |-> params] >>)

\* fn.apply(context, [req, res, next]) for a function value fn
invoke(context, fn, req, res, next) ==
  IF IsHandler(fn) THEN Ran(<< [fn |-> fn, args |-> <<req, res, next>>] >>)
  ELSE IF fn = "Function.prototype.call"
  THEN shifted([fn |-> fn, args |-> <<req, res, next>>], context.f,
               <<res, next, Undefined>>, TRUE)
  ELSE IF fn = "Function.prototype.apply"
  THEN shifted([fn |-> fn, args |-> <<req, res, next>>], context.f,
               <<Undefined, Undefined, Undefined>>, FALSE)
  ELSE IF DirectError(context, fn) # ""
  THEN Raised(DirectError(context, fn))
  ELSE Ran(<< [fn |-> fn, args |-> <<req, res, next>>] >>)

\* context[func].apply(context, [req, res, next])
applyFunction(ctx, f, req, res, next) ==
  IF f.threw THEN Raised(f.err)
  ELSE IF f.v.k # "function" THEN Raised("TypeError")
  ELSE invoke(ctx.v, f.v.f, req, res, next)

\* executeFunctionByName once the loop has left its context
applyIn(ctx, func, req, res, next) ==
  applyFunction(ctx, Lookup(ctx, func), req, res, next)

\* executeParts without the descent through the namespaces
executeParts_NoDescent(parts, context, req, res, next) ==
  applyIn(Returned(context), parts[Len(parts)], req, res, next)

\* executeFunctionByName with functionName already split
executeParts(parts, context, req, res, next) ==
  applyIn(Descend(Returned(context), SubSeq(parts, 1, Len(parts) - 1), 1),
          parts[Len(parts)], req, res, next)

\* executeFunctionByName(functionName, context, req, res, next): the function
\* applied and the arguments it is applied to, or the exception
executeFunctionByName(functionName, context, req, res, next) ==
  executeParts(split(functionName, "."), context, req, res, next)

(***************************************************************************)
(* The response interceptor.                                               *)
(***************************************************************************)
\* a log entry; r and k tell the request and the send it was written for
\* (k = 0 outside a send)
Entry(r, k, v) == [r |-> r, k |-> k, v |-> v]

RECURSIVE Entries(_, _, _)
Entries(r, k, vs) ==
  IF vs = <<>> THEN <<>>
  ELSE <<Entry(r, k, Head(vs))>> \o Entries(r, k, Tail(vs))

\* the outcome of checkResponse: what it logged, the validation it started,
\* the exception it threw
Checked(r, k, logged, err, started) ==
  [threw |-> err # "", err |-> err, log |-> Entries(r, k, logged),
   ticks |-> started, validated |-> started # <<>>]

\* checkResponse, the logger.info calls that open it
CheckInfo(code, spec, method, url, data) ==
  << JStr("Processing at checkResponse:"),
     JStr("  -code: " \o ToString(code)),
     JStr("  -spec: " \o ToStr(AsObject(spec))),
     JStr("  -method: " \o method),
     JStr("  -url: " \o url),
     JStr("  -data: " \o ToStr(data)) >>

\* checkResponse from validator.validate on: the callback is queued with its
\* arguments; JSON.parse may have thrown
validateParsed(validSchema, parsed, r, k, info) ==
  IF parsed.threw THEN Checked(r, k, info, parsed.err, <<>>)
  ELSE Checked(r, k, info, "",
               << [r |-> r, k |-> k, data |-> parsed.v,
                   err |-> Validate(parsed.v, validSchema)] >>)

\* checkSection with a status code that has no section validated against the
\* "default" section
checkSection_DefaultSection(responses, code, data, r, k, info) ==
  IF ToString(code) \notin DOMAIN responses /\ "default" \notin DOMAIN responses
  THEN Checked(r, k, info \o <<JStr("WARNING: wrong response code"), JNum(code)>>,
               "", <<>>)
  ELSE IF ToString(code) \notin DOMAIN responses
  THEN validateParsed(responses["default"].content["application/json"].schema,
                      JSONparse(data), r, k, info)
  ELSE IF "content" \notin DOMAIN responses[ToString(code)]
  THEN Checked(r, k, info, "", <<>>)
  ELSE IF "application/json" \notin DOMAIN responses[ToString(code)].content
  THEN Checked(r, k, info, "TypeError", <<>>)
  ELSE validateParsed(
         responses[ToString(code)].content["application/json"].schema,
         JSONparse(data), r, k, info)

\* checkResponse once responseCodeSection is read
checkSection(responses, code, data, r, k, info) ==
  IF ToString(code) \notin DOMAIN responses
  THEN Checked(r, k, info \o <<JStr("WARNING: wrong response code"), JNum(code)>>,
               "", <<>>)
  ELSE IF "content" \notin DOMAIN responses[ToString(code)]
  THEN Checked(r, k, info, "", <<>>)
  ELSE IF "application/json" \notin DOMAIN responses[ToString(code)].content
  THEN Checked(r, k, info, "TypeError", <<>>)
  ELSE validateParsed(
         responses[ToString(code)].content["application/json"].schema,
         JSONparse(data), r, k,
         info \o << JStr("schema to use for validation"),
                    [k |-> "schema",
                     p |-> responses[ToString(code)].content["application/json"].schema] >>)

\* checkResponse(code, spec, method, url, data) called for send k of request r,
\* with data already data[0]
checkResponse(code, spec, method, url, data, r, k) ==
  checkSection(spec.paths[url][method].responses, code, data, r, k,
               CheckInfo(code, spec, method, url, data))

\* the send primitive the response object had before OASRouter: it hands the
\* arguments to the transport under the status code in effect
oldSend(q, k, args) ==
  [q EXCEPT !.out = Append(@, [k |-> k, status |-> q.statusCode, args |-> args])]

\* the record kept of one call of res.send by a handler
Noted(q, args, threw, err, validated) ==
  [q EXCEPT !.sent = Append(@, [code |-> q.statusCode, args |-> args,
                                threw |-> threw, err |-> err,
                                validated |-> validated])]

\* the interceptor after checkResponse: oldSend.apply(res, arguments), unless
\* checkResponse threw
forward(q, k, args, arguments, chk) ==
  [q |-> IF chk.threw THEN Noted(q, args, TRUE, chk.err, chk.validated)
         ELSE oldSend(Noted(q, args, FALSE, "", chk.validated), k, arguments),
   threw |-> chk.threw, err |-> chk.err, log |-> chk.log, ticks |-> chk.ticks]

\* the interceptor with spec, method and url kept outside the closure, where
\* another request's routing overwrites them
interceptAs(q, c, r, args, data) ==
  forward(q, Len(q.sent) + 1, args,
          IF args = <<>> THEN <<>> ELSE <<data>>,
          checkResponse(q.statusCode, Specs[c.spec], c.method, c.url, data,
                        r, Len(q.sent) + 1))

intercept_SharedClosure(q, r, args, data) ==
  interceptAs(q,
              IF \E x \in DOMAIN rq : x # r /\ rq[x].url # ""
              THEN rq[CHOOSE x \in DOMAIN rq : x # r /\ rq[x].url # ""]
              ELSE q,
              r, args, data)

\* the interceptor once arguments[0] = JSON.stringify(arguments[0]) is done
intercept(q, r, args, data) ==
  forward(q, Len(q.sent) + 1, args,
          IF args = <<>> THEN <<>> ELSE <<data>>,
          checkResponse(q.statusCode, Specs[q.spec], q.method, q.url, data,
                        r, Len(q.sent) + 1))

\* the function OASRouter installs as res.send, called by the handler with
\* args (no argument or one)
interceptor(q, r, args) ==
  intercept(q, r, args, JSONstringify(IF args = <<>> THEN Undefined ELSE args[1]))

\* res.send(args) as the handler calls it: whatever is installed on res
resSend(q, r, args) ==
  IF q.send = "interceptor" THEN interceptor(q, r, args)
  ELSE [q |-> oldSend(Noted(q, args, FALSE, "", FALSE), Len(q.sent) + 1, args),
        threw |-> FALSE, err |-> "", log |-> <<>>, ticks |-> <<>>]

\* the handler sets the status code and sends: res.status(code).send(args)
handlerSend(q, r, code, args) == resSend([q EXCEPT !.statusCode = code], r, args)

(***************************************************************************)
(* The middleware.                                                         *)
(***************************************************************************)
ReqObj(r) == [o |-> "req", r |-> r]
ResObj(r) == [o |-> "res", r |-> r]
NextFn(r) == [o |-> "next", r |-> r]

\* a request before the router sees it: the response object carries its
\* native send primitive and the default status code
NewRequest ==
  [pc |-> "new", err |-> "", spec |-> "", url |-> "", method |-> "",
   controllerName |-> "", opID |-> "", loaded |-> "",
   send |-> "native", statusCode |-> 200,
   applied |-> <<>>, calls |-> <<>>, nextCalls |-> <<>>,
   sent |-> <<>>, out |-> <<>>]

\* what a handler may send: a status code and the arguments of res.send
ValidPets ==
  JArr(<< JObj(<< <<"id", JNum(10)>>, <<"name", JStr("Pig")>>,
                  <<"tag", JStr("Looking for mud")>> >>) >>)

WrongPets ==
  JArr(<< JObj(<< <<"id", JStr("10")>>, <<"name", JStr("Pig")>> >>) >>)

\* a pet without its required properties
LackingPets == JArr(<< JObj(<< <<"tag", JStr("stray")>> >>) >>)

HandlerSends ==
  { [code |-> 200, args |-> <<ValidPets>>],
    [code |-> 200, args |-> <<WrongPets>>],
    [code |-> 200, args |-> <<LackingPets>>],
    [code |-> 200, args |-> <<>>],
    [code |-> 201, args |-> <<JObj(<< <<"message", JStr("created")>> >>)>>],
    [code |-> 418, args |-> <<JStr("teapot")>>] }

\* what the handler does before it returns: nothing, or one send
SyncChoices ==
  { [now |-> FALSE, code |-> 200, args |-> <<>>] }
  \cup { [now |-> TRUE, code |-> s.code, args |-> s.args] : s \in HandlerSends }

\* the router's outcome when the handler did not send before returning
Quiet(q) == [q |-> q, log |-> <<>>, ticks |-> <<>>, sent |-> FALSE]

Failed(q, e) == [q EXCEPT !.pc = "threw", !.err = e]

\* OASRouter after the handler's synchronous send: an exception of res.send
\* leaves the handler and the router
afterSend(snd) ==
  [q |-> IF snd.threw THEN Failed(snd.q, snd.err)
         ELSE [snd.q EXCEPT !.pc = "returned"],
   log |-> snd.log, ticks |-> snd.ticks, sent |-> TRUE]

\* the functions applied, with the handlers among them kept in calls
Applied(q, calls) ==
  [q EXCEPT !.applied = calls,
            !.calls = SelectSeq(calls, LAMBDA c : IsHandler(c.fn))]

\* a handler of request r was given the response object as its res: it is
\* on that parameter that a handler sends
CanSend(q, r) == \E i \in 1..Len(q.calls) : q.calls[i].args[2] = ResObj(r)

\* OASRouter from executeFunctionByName(opID, controller, req, res, next) on
dispatch(q, r, sync, exec) ==
  IF exec.threw THEN Quiet(Failed(q, exec.err))
  ELSE IF ~CanSend(Applied(q, exec.calls), r) \/ ~sync.now
       THEN Quiet([Applied(q, exec.calls) EXCEPT !.pc = "returned"])
  ELSE afterSend(handlerSend(Applied(q, exec.calls), r, sync.code, sync.args))

\* routeLoaded with the interceptor installed before the module is loaded
routeLoaded_InterceptFirst(q, r, sync, file, controller) ==
  IF controller.threw
  THEN Quiet(Failed([q EXCEPT !.send = "interceptor"], controller.err))
  ELSE dispatch([q EXCEPT !.loaded = file, !.send = "interceptor"], r, sync,
                executeFunctionByName(q.opID, controller.v,
                                      ReqObj(r), ResObj(r), NextFn(r)))

\* routeLoaded with the operation executed before res.send is replaced
routeLoaded_HandlerFirst(q, r, sync, file, controller) ==
  IF controller.threw THEN Quiet(Failed(q, controller.err))
  ELSE [dispatch([q EXCEPT !.loaded = file], r, sync,
                 executeFunctionByName(q.opID, controller.v,
                                       ReqObj(r), ResObj(r), NextFn(r)))
          EXCEPT !.q.send = "interceptor"]

\* OASRouter from require(path.join(options.controllers, controllerName)) on:
\* the interceptor replaces res.send, then the operation is executed
routeLoaded(q, r, sync, file, controller) ==
  IF controller.threw THEN Quiet(Failed(q, controller.err))
  ELSE dispatch([q EXCEPT !.loaded = file, !.send = "interceptor"], r, sync,
                executeFunctionByName(q.opID, controller.v,
                                      ReqObj(r), ResObj(r), NextFn(r)))

\* OASRouter once controllerName is chosen: the operation id, then the module
routeNamed(mods, q, r, sync, name, opID) ==
  IF name.threw THEN Quiet(Failed(q, name.err))
  ELSE routeLoaded([q EXCEPT !.controllerName = name.v, !.opID = opID], r, sync,
                   pathJoin(ControllersDir, name.v),
                   require(ModuleSystem(mods.files, name.cache),
                           pathJoin(ControllersDir, name.v)))

\* OASRouter(req, res, next) for request r asking for operation o, with a
\* handler that behaves as `sync` when it is invoked
OASRouter(mods, q, r, o, sync) ==
  routeNamed(mods,
             [q EXCEPT !.spec = o.spec, !.url = o.url,
                       !.method = toLowerCase(o.method)],
             r, sync,
             controllerNameFor(mods, Specs[o.spec], o.url, toLowerCase(o.method)),
             generateOpId(Specs[o.spec], o.url, toLowerCase(o.method)))

\* require.cache after OASRouter ran for operation o: what the choice of the
\* name and the load of the named module left in it
requireCache(mods, o) ==
  LET name == controllerNameFor(mods, Specs[o.spec], o.url, toLowerCase(o.method))
  IN IF name.threw THEN name.cache
     ELSE require(ModuleSystem(mods.files, name.cache),
                  pathJoin(ControllersDir, name.v)).cache

\* the report z-schema keeps on the shared validator after a validate call
ReportOf(old, newTicks) ==
  IF newTicks = <<>> THEN old
  ELSE [r |-> newTicks[Len(newTicks)].r, errors |-> newTicks[Len(newTicks)].err]

Init ==
  /\ modules \in Deployments
  /\ rq = [r \in Requests |-> NewRequest]
  /\ log = << Entry(0, 0, JStr("Controller initialized at: " \o ControllersDir)) >>
  /\ ticks = <<>>
  /\ lastReport = [r |-> 0, errors |-> <<>>]
  /\ sends = 0
  /\ cache = [id \in {} |-> Undefined]

\* the state after request r ran code with outcome res
Commit(r, res) ==
  /\ rq' = [rq EXCEPT ![r] = res.q]
  /\ log' = log \o res.log
  /\ ticks' = ticks \o res.ticks
  /\ lastReport' = ReportOf(lastReport, res.ticks)

RouteDone(r, sync, res) ==
  /\ sync.now => res.sent
  /\ Commit(r, res)
  /\ sends' = sends + (IF res.sent THEN 1 ELSE 0)

\* a request reaches the router, in a turn of its own or in the turn of
\* another request (a pipelined request, a middleware that calls the router
\* synchronously), where callbacks of the validator may still be waiting
RouteWithin(r, max) ==
  /\ rq[r].pc = "new"
  /\ \E o \in Operations, sync \in SyncChoices :
       /\ sync.now => sends < max
       /\ RouteDone(r, sync,
                    OASRouter(ModuleSystem(modules, cache), rq[r], r, o, sync))
       /\ cache' = requireCache(ModuleSystem(modules, cache), o)
  /\ UNCHANGED modules

\* a handler that was invoked sends again, in the turn of the event loop it
\* sent in before or from a later callback: the validator's callbacks of
\* earlier sends may still be waiting
LateSendWithin(r, max) ==
  /\ CanSend(rq[r], r)
  /\ sends < max
  /\ \E s \in HandlerSends : Commit(r, handlerSend(rq[r], r, s.code, s.args))
  /\ sends' = sends + 1
  /\ UNCHANGED <<modules, cache>>

Route(r) == RouteWithin(r, MaxSends)

LateSend(r) == LateSendWithin(r, MaxSends)

\* what the validator's callback function(err, valid) logs
callbackLog(t) ==
  IF t.err # <<>>
  THEN Entries(t.r, t.k,
         << JStr("WARNING: wrong data in the response. " \o processErr(t.err)),
            t.data >>)
  ELSE <<>>

\* the validator's callback runs on the next tick
ValidationCallback ==
  /\ ticks # <<>>
  /\ log' = log \o callbackLog(Head(ticks))
  /\ ticks' = Tail(ticks)
  /\ UNCHANGED <<modules, rq, lastReport, sends, cache>>

Next ==
  \/ \E r \in Requests : Route(r)
  \/ \E r \in Requests : LateSend(r)
  \/ ValidationCallback

Spec == Init /\ [][Next]_vars

(***************************************************************************)
(* Vocabulary of the properties.                                           *)
(***************************************************************************)
Routed(r) == rq[r].pc # "new"

\* the Operation Descriptor of a routed request
Descriptor(r) == Specs[rq[r].spec].paths[rq[r].url][rq[r].method]

HasOverride(r) == "x-router-controller" \in DOMAIN Descriptor(r)
HasOperationId(r) == "operationId" \in DOMAIN Descriptor(r)

\* the deliveries made for send k of request r: calls of the original send
Deliveries(r, k) == { j \in 1..Len(rq[r].out) : rq[r].out[j].k = k }

Contains(text, pat) ==
  \E i \in 0..(Len(text) - Len(pat)) : SubSeq(text, i + 1, i + Len(pat)) = pat

\* the logger received `text` while request r was in its send k
Logged(r, k, text) ==
  \E i \in 1..Len(log) :
    /\ log[i].r = r /\ log[i].k = k
    /\ log[i].v.k = "string" /\ Contains(log[i].v.s, text)

\* the validator reported a mismatch for send k of request r
Mismatch(r, k) ==
  \/ \E i \in 1..Len(ticks) : ticks[i].r = r /\ ticks[i].k = k /\ ticks[i].err # <<>>
  \/ Logged(r, k, "WARNING: wrong data in the response")

(***************************************************************************)
(* C1.  The interceptor changes neither the payload nor the status code:   *)
(* every call of the original send carries exactly the arguments and the   *)
(* status code of the handler's send it stands for.                        *)
(* Fails: the interceptor hands on JSON.stringify of the payload.          *)
(***************************************************************************)
C1_SendForwardsPayloadUnchanged ==
  \A r \in Requests : \A j \in 1..Len(rq[r].out) :
    /\ rq[r].out[j].args = rq[r].sent[rq[r].out[j].k].args
    /\ rq[r].out[j].status = rq[r].sent[rq[r].out[j].k].code

(***************************************************************************)
(* C2.  Every call a handler makes to the intercepted send reaches the     *)
(* original send exactly once, whatever the validation step does.          *)
(* Fails: an exception of checkResponse skips the original send.           *)
(***************************************************************************)
C2_EverySendDeliveredOnce ==
  \A r \in Requests : \A k \in 1..Len(rq[r].sent) :
    Cardinality(Deliveries(r, k)) = 1

(***************************************************************************)
(* C3.  A payload that does not match the schema of its status code is not *)
(* delivered: the client receives status 400 and a body that says "Wrong   *)
(* data in the response".                                                  *)
(* Fails: the mismatch is only logged and the payload goes out as sent.    *)
(***************************************************************************)
C3_MismatchAnsweredWith400 ==
  \A r \in Requests : \A k \in 1..Len(rq[r].sent) :
    Mismatch(r, k) =>
      \A j \in Deliveries(r, k) :
        /\ rq[r].out[j].status = 400
        /\ rq[r].out[j].args # <<>>
        /\ Contains(ToStr(rq[r].out[j].args[1]), "Wrong data in the response")

(***************************************************************************)
(* C4.  With a controller override in the descriptor the router loads the  *)
(* module the override names, whatever the deployment holds under the      *)
(* conventional name: the name chosen is the override, the file loaded is  *)
(* the override's file when it exists, and a missing file is the only      *)
(* failure of the load.                                                    *)
(***************************************************************************)
OverrideFile(r) == pathJoin(ControllersDir, Descriptor(r)["x-router-controller"])

C4_OverrideSelectsModule ==
  \A r \in Requests :
    (Routed(r) /\ HasOverride(r)) =>
      /\ rq[r].controllerName = Descriptor(r)["x-router-controller"]
      /\ OverrideFile(r) \in DOMAIN modules => rq[r].loaded = OverrideFile(r)
      /\ OverrideFile(r) \notin DOMAIN modules =>
           rq[r].loaded = "" /\ rq[r].err = "MODULE_NOT_FOUND"

\* the conventional name of the path a request asks for
ConventionalName(r) == SubSeq(rq[r].url, 2, Len(rq[r].url)) \o "Controllers"

ConventionalFile(r) == pathJoin(ControllersDir, ConventionalName(r))

\* an override was followed in a deployment without the conventional module
C4_Witness ==
  \E r \in Requests :
    /\ Routed(r) /\ HasOverride(r)
    /\ ConventionalFile(r) \notin DOMAIN modules
    /\ rq[r].loaded = OverrideFile(r)
    /\ rq[r].calls # <<>>

(***************************************************************************)
(* C5.  Without an override the module name is the conventional name when  *)
(* a module of that name loads, and the default name when none does.       *)
(* Fails: the existence check throws when the conventional module is       *)
(* missing, so no name is chosen and the default is never reached.         *)
(***************************************************************************)
ConventionalLoads(r) ==
  /\ ConventionalFile(r) \in DOMAIN modules
  /\ modules[ConventionalFile(r)].k \notin {"undefined", "null"}

C5_ConventionElseDefault ==
  \A r \in Requests :
    (Routed(r) /\ ~HasOverride(r)) =>
      rq[r].controllerName =
        IF ConventionalLoads(r) THEN ConventionalName(r) ELSE "Defualt"

(***************************************************************************)
(* C6.  With an operationId in the descriptor that names a handler of the  *)
(* loaded module, the router calls that handler, reached segment by        *)
(* segment, once, with the request, the response and the continuation, and *)
(* applies nothing else.                                                   *)
(***************************************************************************)
\* the handlers of a module value, by the identity the deployment gives them
RECURSIVE HandlerIds(_)
HandlerIds(v) ==
  IF v.k = "function" THEN {v.f}
  ELSE IF v.k = "object"
       THEN UNION { HandlerIds(v.p[i][2]) : i \in 1..Len(v.p) }
  ELSE {}

\* the handler that operationId names in module controllerName
NamedHandler(r) == rq[r].controllerName \o "." \o rq[r].opID

C6_OperationIdInvoked ==
  \A r \in Requests :
    (/\ Routed(r) /\ HasOperationId(r) /\ rq[r].loaded # ""
     /\ NamedHandler(r) \in HandlerIds(modules[rq[r].loaded])) =>
      /\ rq[r].opID = Descriptor(r).operationId
      /\ rq[r].applied =
           << [fn |-> NamedHandler(r),
               args |-> <<ReqObj(r), ResObj(r), NextFn(r)>>] >>
      /\ rq[r].calls = rq[r].applied

\* a namespaced operationId reached its handler
C6_Witness ==
  \E r \in Requests :
    /\ Routed(r) /\ rq[r].opID = "owners.list"
    /\ Len(rq[r].calls) = 1
    /\ rq[r].calls[1].fn = "ownersCtl.owners.list"

(***************************************************************************)
(* C7.  Without an operationId the identifier is the verb of the method    *)
(* (GET list, POST create, PUT update, otherwise delete) followed by the   *)
(* path without its leading separator.                                     *)
(* Fails: the verb and the name are computed from the descriptor object,   *)
(* which gives "deleteobject Object]" for every operation.                 *)
(***************************************************************************)
VerbOf(method) ==
  CASE method = "get" -> "list"
    [] method = "post" -> "create"
    [] method = "put" -> "update"
    [] OTHER -> "delete"

C7_SynthesizedOperationId ==
  \A r \in Requests :
    (Routed(r) /\ ~HasOperationId(r) /\ rq[r].controllerName # "") =>
      rq[r].opID = VerbOf(rq[r].method) \o SubSeq(rq[r].url, 2, Len(rq[r].url))

(***************************************************************************)
(* C8.  A send under a status code the response map does not list is not   *)
(* validated, writes the warning about the response code, and reaches the  *)
(* original send.                                                          *)
(***************************************************************************)
Responses(r) == Descriptor(r).responses

Unlisted(r, k) == ToString(rq[r].sent[k].code) \notin DOMAIN Responses(r)

C8_UnlistedCodePassesThrough ==
  \A r \in Requests : \A k \in 1..Len(rq[r].sent) :
    Unlisted(r, k) =>
      /\ ~rq[r].sent[k].validated
      /\ ~rq[r].sent[k].threw
      /\ \A i \in 1..Len(ticks) : ~(ticks[i].r = r /\ ticks[i].k = k)
      /\ Logged(r, k, "WARNING: wrong response code")
      /\ ~Logged(r, k, "schema to use for validation")
      /\ Cardinality(Deliveries(r, k)) = 1

\* a handler sent 418 and the send was delivered
C8_Witness ==
  \E r \in Requests : \E k \in 1..Len(rq[r].sent) :
    /\ rq[r].sent[k].code = 418
    /\ Unlisted(r, k)
    /\ Deliveries(r, k) # {}

(***************************************************************************)
(* C9.  An operationId that names no callable of the loaded module ends in *)
(* a fatal error: the request is never left with neither a handler invoked *)
(* nor an error raised.  (An exception that leaves the router counts as    *)
(* the error here: it reaches the error boundary of the router's caller.)  *)
(* Fails: the lookup also finds what the module inherits from              *)
(* Object.prototype, so an operationId such as "toString" is applied       *)
(* without error and no handler runs.                                      *)
(***************************************************************************)
C9_UnresolvedEndsInError ==
  \A r \in Requests :
    (/\ Routed(r) /\ rq[r].loaded # ""
     /\ NamedHandler(r) \notin HandlerIds(modules[rq[r].loaded])
     /\ rq[r].calls = <<>>) =>
      rq[r].pc = "threw"

(***************************************************************************)
(* C10.  When the module cannot be loaded under the name the router has    *)
(* for it, the router ends in the load's exception (which reaches the      *)
(* error boundary of its caller), no function of a module is applied, and  *)
(* res.send is still the native primitive.                                 *)
(***************************************************************************)
\* the file the router asks for: the override's; else the conventional one,
\* which the existence check loads, and the default one when that load
\* yields nothing
NamedFile(r) ==
  IF HasOverride(r) THEN OverrideFile(r)
  ELSE IF ConventionalFile(r) \in DOMAIN modules /\ ~ConventionalLoads(r)
       THEN pathJoin(ControllersDir, "Defualt")
  ELSE ConventionalFile(r)

C10_LoadFailureIsFatal ==
  \A r \in Requests :
    /\ (Routed(r) /\ NamedFile(r) \notin DOMAIN modules) =>
         /\ rq[r].pc = "threw" /\ rq[r].err = "MODULE_NOT_FOUND"
         /\ rq[r].applied = <<>> /\ rq[r].calls = <<>>
         /\ rq[r].send = "native"
         /\ rq[r].sent = <<>> /\ rq[r].out = <<>>
    /\ rq[r].err = "MODULE_NOT_FOUND" =>
         rq[r].applied = <<>> /\ rq[r].send = "native"

\* load failures happened: an override without a module, and a request
\* without an override whose conventional or default module is missing
C10_Witness ==
  /\ \E r \in Requests :
       Routed(r) /\ HasOverride(r) /\ rq[r].err = "MODULE_NOT_FOUND"
  /\ \E r \in Requests :
       /\ Routed(r) /\ ~HasOverride(r) /\ rq[r].err = "MODULE_NOT_FOUND"
       /\ (ConventionalFile(r) \notin DOMAIN modules \/ rq[r].controllerName = "Defualt")

(***************************************************************************)
(* C11.  Resolving the same path and method twice gives the same module    *)
(* name and the same operation id (and loads the same file), whatever      *)
(* other requests were routed, answered or validated in between, and       *)
(* whatever they left in require.cache, which line 105 and line 178 read.  *)
(* Checked with three requests in flight, so that a request for another    *)
(* operation lies between the two.                                         *)
(***************************************************************************)
\* three requests instead of two
MoreRequests == Requests \cup {3}

InitThree ==
  /\ modules \in Deployments
  /\ rq = [r \in MoreRequests |-> NewRequest]
  /\ log = << Entry(0, 0, JStr("Controller initialized at: " \o ControllersDir)) >>
  /\ ticks = <<>>
  /\ lastReport = [r |-> 0, errors |-> <<>>]
  /\ sends = 0
  /\ cache = [id \in {} |-> Undefined]

NextThree ==
  \/ \E r \in MoreRequests : RouteWithin(r, FewSends)
  \/ \E r \in MoreRequests : LateSendWithin(r, FewSends)
  \/ ValidationCallback

SpecThree == InitThree /\ [][NextThree]_vars

SameOperation(a, b) ==
  /\ rq[a].spec = rq[b].spec
  /\ rq[a].url = rq[b].url
  /\ rq[a].method = rq[b].method

C11_ResolutionIdempotent ==
  \A a \in DOMAIN rq : \A b \in DOMAIN rq :
    (rq[a].pc # "new" /\ rq[b].pc # "new" /\ SameOperation(a, b)) =>
      /\ rq[a].controllerName = rq[b].controllerName
      /\ rq[a].opID = rq[b].opID
      /\ rq[a].loaded = rq[b].loaded

\* two requests resolved an operation without an override to its
\* conventional module, a third loaded that same module through its
\* override and another request's send was validated: whichever of the
\* three came first, a later one found the module in require.cache
C11_Witness ==
  \E a \in DOMAIN rq : \E b \in DOMAIN rq : \E c \in DOMAIN rq :
    /\ a # b
    /\ rq[a].pc # "new" /\ rq[b].pc # "new" /\ rq[c].pc # "new"
    /\ SameOperation(a, b) /\ ~SameOperation(a, c)
    /\ ~HasOverride(a) /\ HasOverride(c)
    /\ rq[a].controllerName = ConventionalName(a)
    /\ rq[a].opID # "" /\ rq[a].loaded = ConventionalFile(a)
    /\ rq[c].loaded = rq[a].loaded
    /\ rq[a].loaded \in DOMAIN cache
    /\ lastReport.r # 0

(***************************************************************************)
(* C12.  A send under a status code whose section has a content mapping    *)
(* without an application/json entry is not validated, raises nothing and  *)
(* reaches the original send.                                              *)
(* Fails: the schema is read from content['application/json'], which is    *)
(* undefined there; the TypeError leaves the interceptor before the        *)
(* original send is called.                                                *)
(***************************************************************************)
\* the section of the response map for the status code of send k
Section(r, k) == Responses(r)[ToString(rq[r].sent[k].code)]

NoJsonContent(r, k) ==
  /\ ~Unlisted(r, k)
  /\ "content" \in DOMAIN Section(r, k)
  /\ "application/json" \notin DOMAIN Section(r, k).content

C12_NoJsonContentSkipsValidation ==
  \A r \in DOMAIN rq : \A k \in 1..Len(rq[r].sent) :
    NoJsonContent(r, k) =>
      /\ ~rq[r].sent[k].threw
      /\ ~rq[r].sent[k].validated
      /\ Cardinality(Deliveries(r, k)) = 1

(***************************************************************************)
(* C13.  A send under a status code with a JSON schema whose payload does   *)
(* not parse as JSON (send without a value) is a validation failure: it is *)
(* reported as a mismatch is, no exception leaves the interceptor and the  *)
(* send reaches the original send.                                         *)
(* Fails: JSON.parse throws a SyntaxError inside checkResponse; nothing is *)
(* logged about it and the original send is never called.                  *)
(***************************************************************************)
HasJsonSchema(r, k) ==
  /\ ~Unlisted(r, k)
  /\ "content" \in DOMAIN Section(r, k)
  /\ "application/json" \in DOMAIN Section(r, k).content

\* what the interceptor hands to the validation step for send k
Handed(r, k) ==
  JSONstringify(IF rq[r].sent[k].args = <<>> THEN Undefined
                ELSE rq[r].sent[k].args[1])

Unparsable(r, k) == JSONparse(Handed(r, k)).threw

C13_UnparsableIsLoggedNotFatal ==
  \A r \in DOMAIN rq : \A k \in 1..Len(rq[r].sent) :
    (HasJsonSchema(r, k) /\ Unparsable(r, k)) =>
      /\ ~rq[r].sent[k].threw
      /\ rq[r].pc # "threw"
      /\ Mismatch(r, k)
      /\ Cardinality(Deliveries(r, k)) = 1

(***************************************************************************)
(* C14.  Once the validator's callback for a send has run, the log holds a *)
(* violation entry for that send exactly when the validator reported a     *)
(* mismatch: one entry, whose text after "WARNING: wrong data in the       *)
(* response. " is the reported messages in order with ". " between them    *)
(* and nothing before the first.  A payload that conforms, and a send that *)
(* was not validated, leave no violation entry.                            *)
(***************************************************************************)
ViolationPrefix == "WARNING: wrong data in the response. "

StartsWith(text, prefix) ==
  Len(text) >= Len(prefix) /\ SubSeq(text, 1, Len(prefix)) = prefix

IsViolation(e) == e.v.k = "string" /\ StartsWith(e.v.s, ViolationPrefix)

\* the violation entries written for send k of request r
ViolationEntries(r, k) ==
  SelectSeq(log, LAMBDA e : e.r = r /\ e.k = k /\ IsViolation(e))

\* the validator's callback for send k of request r has not run yet
Pending(r, k) == \E i \in 1..Len(ticks) : ticks[i].r = r /\ ticks[i].k = k

\* what the validator reports for the payload of send k against the schema
\* of its status code
Reported(r, k) ==
  Validate(JSONparse(Handed(r, k)).v,
           Section(r, k).content["application/json"].schema)

RECURSIVE JoinedMessages(_)
JoinedMessages(errs) ==
  IF errs = <<>> THEN ""
  ELSE IF Len(errs) = 1 THEN errs[1].message
  ELSE errs[1].message \o ". " \o JoinedMessages(Tail(errs))

ViolationAgrees(entries, errs) ==
  IF errs = <<>> THEN entries = <<>>
  ELSE /\ Len(entries) = 1
       /\ entries[1].v.s = ViolationPrefix \o JoinedMessages(errs)

C14_ViolationLoggedIffMismatch ==
  \A r \in DOMAIN rq : \A k \in 1..Len(rq[r].sent) :
    IF rq[r].sent[k].validated /\ ~Pending(r, k)
    THEN ViolationAgrees(ViolationEntries(r, k), Reported(r, k))
    ELSE ViolationEntries(r, k) = <<>>

\* the callbacks ran for a send with two mismatches, which was logged, and
\* for a send of the conforming pets, which was not
C14_Witness ==
  /\ \E r \in DOMAIN rq : \E k \in 1..Len(rq[r].sent) :
       /\ rq[r].sent[k].validated /\ ~Pending(r, k)
       /\ Len(Reported(r, k)) = 2
       /\ Len(ViolationEntries(r, k)) = 1
  /\ \E r \in DOMAIN rq : \E k \in 1..Len(rq[r].sent) :
       /\ rq[r].sent[k].validated /\ ~Pending(r, k)
       /\ rq[r].sent[k].args = <<ValidPets>>
       /\ rq[r].sent[k].code = 200
       /\ ViolationEntries(r, k) = <<>>

(***************************************************************************)
(* C15.  The interceptor is on the response object before the handler      *)
(* runs: every send a handler makes, before it returns or later, goes      *)
(* through checkResponse, and every call of the original send stands for   *)
(* a send that did.                                                        *)
(***************************************************************************)
\* send k of request r went through checkResponse
Checkpoint(r, k) ==
  \E i \in 1..Len(log) :
    log[i] = Entry(r, k, JStr("Processing at checkResponse:"))

C15_InterceptorInstalledFirst ==
  \A r \in DOMAIN rq :
    /\ rq[r].applied # <<>> => rq[r].send = "interceptor"
    /\ \A k \in 1..Len(rq[r].sent) : Checkpoint(r, k)
    /\ \A j \in 1..Len(rq[r].out) :
         /\ rq[r].out[j].k \in 1..Len(rq[r].sent)
         /\ Checkpoint(r, rq[r].out[j].k)

\* a handler sent twice, both sends were checked and delivered
C15_Witness ==
  \E r \in DOMAIN rq :
    /\ rq[r].calls # <<>>
    /\ Len(rq[r].sent) = 2 /\ Len(rq[r].out) = 2
    /\ Checkpoint(r, 1) /\ Checkpoint(r, 2)

(***************************************************************************)
(* C16.  With requests interleaved, what the interceptor does for a send   *)
(* is determined by the request the send belongs to: checkResponse is      *)
(* given that request's status code, method and path, validation is        *)
(* started, skipped or fails as that request's response map says, the      *)
(* report is the one for that request's payload and schema, and the        *)
(* original send is called on that request's response with its status.     *)
(***************************************************************************)
\* the entries of send k of request r that begin with `label`
Labelled(r, k, label) ==
  SelectSeq(log, LAMBDA e : /\ e.r = r /\ e.k = k /\ e.v.k = "string"
                            /\ StartsWith(e.v.s, label))

OwnCheck(r, k) ==
  /\ Labelled(r, k, "  -code: ")
       = << Entry(r, k, JStr("  -code: " \o ToString(rq[r].sent[k].code))) >>
  /\ Labelled(r, k, "  -method: ")
       = << Entry(r, k, JStr("  -method: " \o rq[r].method)) >>
  /\ Labelled(r, k, "  -url: ")
       = << Entry(r, k, JStr("  -url: " \o rq[r].url)) >>

OwnValidation(r, k) ==
  /\ rq[r].sent[k].validated <=> (HasJsonSchema(r, k) /\ ~Unparsable(r, k))
  /\ rq[r].sent[k].threw <=>
       (NoJsonContent(r, k) \/ (HasJsonSchema(r, k) /\ Unparsable(r, k)))
  /\ \A i \in 1..Len(ticks) :
       (ticks[i].r = r /\ ticks[i].k = k) =>
         /\ rq[r].sent[k].validated
         /\ ticks[i].err = Reported(r, k)
         /\ ticks[i].data = JSONparse(Handed(r, k)).v
  /\ (rq[r].sent[k].validated /\ ~Pending(r, k)) =>
       ViolationAgrees(ViolationEntries(r, k), Reported(r, k))

OwnDelivery(r, k) ==
  /\ Cardinality(Deliveries(r, k)) = (IF rq[r].sent[k].threw THEN 0 ELSE 1)
  /\ \A j \in Deliveries(r, k) : rq[r].out[j].status = rq[r].sent[k].code

C16_NoCrossRequestInterference ==
  /\ \A r \in DOMAIN rq : \A k \in 1..Len(rq[r].sent) :
       OwnCheck(r, k) /\ OwnValidation(r, k) /\ OwnDelivery(r, k)
  /\ \A i \in 1..Len(log) :
       log[i].r # 0 => log[i].k \in 1..Len(rq[log[i].r].sent)
  /\ \A i \in 1..Len(ticks) : ticks[i].k \in 1..Len(rq[ticks[i].r].sent)

\* two requests for different operations both had a send validated and
\* delivered, one of them with a mismatch
C16_Witness ==
  \E a \in DOMAIN rq : \E b \in DOMAIN rq :
    /\ a # b /\ ~SameOperation(a, b)
    /\ rq[a].url # rq[b].url
    /\ rq[a].sent # <<>> /\ rq[b].sent # <<>>
    /\ rq[a].sent[1].validated /\ rq[b].sent[1].validated
    /\ rq[a].out # <<>> /\ rq[b].out # <<>>
    /\ Reported(a, 1) # <<>> /\ Reported(b, 1) = <<>>
    /\ ticks = <<>>

====
